---------------------------- MODULE Spec2Model ----------------------------
(***************************************************************************)
(* A model of src/backend/setup.py, the packaging script of the            *)
(* brik-refunds-service distribution.                                      *)
(*                                                                         *)
(* The script is a straight-line program: it evaluates README (line 49),   *)
(* calls get_requirements() (line 52) and calls setup() (lines 54-85).     *)
(* Its only inputs are the process's working directory and the two files   *)
(* README.md and requirements.txt.  A text is a sequence of one-character  *)
(* strings, so that line splitting and str.strip() are computed, not       *)
(* assumed.                                                                *)
(***************************************************************************)
EXTENDS Naturals, Sequences, FiniteSets

VARIABLES
    cwd,              \* the process's current working directory
    readme,           \* README.md in each directory
    requirementsTxt,  \* requirements.txt in the directory of setup.py
    pc,               \* the statement the script is at
    README,           \* module variable README (line 49)
    requirements,     \* get_requirements()'s local list (line 20)
    rest,             \* the open file's unread characters
    lineNo,           \* lines the file iterator has delivered
    retval,           \* what get_requirements() returned
    REQUIREMENTS,     \* module variable REQUIREMENTS (line 52)
    setupCalls,       \* the keyword arguments of each setup() call made
    exc,              \* the exception that ended the run, or "" for none
    results           \* the lists returned to a caller that calls repeatedly

fsVars == <<cwd, readme, requirementsTxt>>
vars == <<cwd, readme, requirementsTxt, pc, README, requirements, rest,
          lineNo, retval, REQUIREMENTS, setupCalls, exc, results>>

---------------------------------------------------------------------------
(* Bounds of the model. *)

\* The longest requirements.txt, in characters.
MaxChars == 4

\* How often the repeated-call driver calls get_requirements().
MaxCalls == 2

---------------------------------------------------------------------------
(* Texts. *)

NL == "\n"

\* The characters a requirements.txt is drawn from: a blank, a newline, the
\* comment mark and one other character.
Chars == {" ", NL, "#", "a"}

\* What str.strip() with no argument removes, among Chars.
Whitespace == {" ", NL}

Texts == UNION {[1..n -> Chars] : n \in 0..MaxChars}

\* The number of lines the file iterator delivers for a text: one per
\* newline, and one more for a last line that no newline ends.
LineCount(text) ==
    Cardinality({i \in 1..Len(text) : text[i] = NL})
        + (IF Len(text) > 0 /\ text[Len(text)] # NL THEN 1 ELSE 0)

\* `for line in f`: the index of the last character of the line that
\* starts at index i of text (the newline ending it, or the end of text).
RECURSIVE LineEnd(_, _)
LineEnd(text, i) ==
    IF i >= Len(text) THEN Len(text)
    ELSE IF text[i] = NL THEN i
    ELSE LineEnd(text, i + 1)

\* The next line of the unread text, its newline included.
NextLine(text) == SubSeq(text, 1, LineEnd(text, 1))

\* The unread text after the next line.
AfterNextLine(text) == SubSeq(text, LineEnd(text, 1) + 1, Len(text))

RECURSIVE LStrip(_)
LStrip(s) ==
    IF s # <<>> /\ Head(s) \in Whitespace THEN LStrip(Tail(s)) ELSE s

RECURSIVE RStrip(_)
RStrip(s) ==
    IF s # <<>> /\ s[Len(s)] \in Whitespace
    THEN RStrip(SubSeq(s, 1, Len(s) - 1))
    ELSE s

\* A strip that forgets the right end: line.lstrip().
Strip_LeftOnly(line) == LStrip(line)

\* line.strip()
Strip(line) == RStrip(LStrip(line))

\* line.startswith('#')
StartsWithHash(line) == line # <<>> /\ line[1] = "#"

\* A filter that forgets the comment test: `if line`.
Accepted_NoCommentTest(line) == line # <<>>

\* `if line and not line.startswith('#')`, on the stripped line.
Accepted(line) == line # <<>> /\ ~StartsWithHash(line)

---------------------------------------------------------------------------
(* The literal lists of the script. *)

\* A fallback list that lost an entry (jinja2) and has two others swapped.
FallbackList_Edited ==
  << <<"s","q","l","a","l","c","h","e","m","y",">","=","2",".","0",".","0">>,
     <<"f","l","a","s","k",">","=","2",".","3",".","0">>,
     <<"m","a","r","s","h","m","a","l","l","o","w",">","=","3",".","2","0",".","0">>,
     <<"c","e","l","e","r","y",">","=","5",".","3",".","0">>,
     <<"p","y","j","w","t",">","=","2",".","8",".","0">>,
     <<"p","y","m","o","n","g","o",">","=","6",".","0",".","0">>,
     <<"r","e","d","i","s",">","=","7",".","0",".","0">>,
     <<"b","o","t","o","3",">","=","1",".","2","8",".","0">>,
     <<"r","e","q","u","e","s","t","s",">","=","2",".","3","1",".","0">>,
     <<"p","y","t","h","o","n","-","d","o","t","e","n","v",">","=","1",".","0",".","0">>,
     <<"g","u","n","i","c","o","r","n",">","=","2","1",".","2",".","0">>,
     <<"p","y","d","a","n","t","i","c",">","=","2",".","4",".","0">>,
     <<"c","r","y","p","t","o","g","r","a","p","h","y",">","=","4","1",".","0",".","0">> >>

\* The list get_requirements() returns from its except clause.
FallbackList ==
  << <<"f","l","a","s","k",">","=","2",".","3",".","0">>,
     <<"s","q","l","a","l","c","h","e","m","y",">","=","2",".","0",".","0">>,
     <<"m","a","r","s","h","m","a","l","l","o","w",">","=","3",".","2","0",".","0">>,
     <<"c","e","l","e","r","y",">","=","5",".","3",".","0">>,
     <<"p","y","j","w","t",">","=","2",".","8",".","0">>,
     <<"p","y","m","o","n","g","o",">","=","6",".","0",".","0">>,
     <<"r","e","d","i","s",">","=","7",".","0",".","0">>,
     <<"b","o","t","o","3",">","=","1",".","2","8",".","0">>,
     <<"r","e","q","u","e","s","t","s",">","=","2",".","3","1",".","0">>,
     <<"p","y","t","h","o","n","-","d","o","t","e","n","v",">","=","1",".","0",".","0">>,
     <<"g","u","n","i","c","o","r","n",">","=","2","1",".","2",".","0">>,
     <<"p","y","d","a","n","t","i","c",">","=","2",".","4",".","0">>,
     <<"c","r","y","p","t","o","g","r","a","p","h","y",">","=","4","1",".","0",".","0">>,
     <<"j","i","n","j","a","2",">","=","3",".","1",".","0">> >>

\* A 'dev' extra without its last tool.
DevExtras_NoMypy ==
  << <<"p","y","t","e","s","t",">","=","7",".","4",".","0">>,
     <<"p","y","t","e","s","t","-","c","o","v",">","=","4",".","1",".","0">>,
     <<"p","y","t","e","s","t","-","m","o","c","k",">","=","3",".","1","1",".","0">>,
     <<"b","l","a","c","k",">","=","2","3",".","7",".","0">>,
     <<"f","l","a","k","e","8",">","=","6",".","1",".","0">>,
     <<"i","s","o","r","t",">","=","5",".","1","2",".","0">> >>

\* extras_require['dev']
DevExtras ==
  << <<"p","y","t","e","s","t",">","=","7",".","4",".","0">>,
     <<"p","y","t","e","s","t","-","c","o","v",">","=","4",".","1",".","0">>,
     <<"p","y","t","e","s","t","-","m","o","c","k",">","=","3",".","1","1",".","0">>,
     <<"b","l","a","c","k",">","=","2","3",".","7",".","0">>,
     <<"f","l","a","k","e","8",">","=","6",".","1",".","0">>,
     <<"i","s","o","r","t",">","=","5",".","1","2",".","0">>,
     <<"m","y","p","y",">","=","1",".","5",".","0">> >>

\* entry_points['console_scripts']
ConsoleScripts ==
  << "refunds-api=backend.api.server:main",
     "refunds-worker=backend.workers.processor:main" >>

\* The literals with the worker's console script dropped and an older
\* interpreter allowed.
SetupLiterals_Edited ==
    [name            |-> "brik-refunds-service",
     version         |-> "0.1.0",
     python_requires |-> ">=3.10",
     extras_require  |-> [dev |-> DevExtras],
     entry_points    |-> [console_scripts |->
                             << "refunds-api=backend.api.server:main" >>]]

\* The keyword arguments of the setup() call that depend on nothing.
SetupLiterals ==
    [name            |-> "brik-refunds-service",
     version         |-> "0.1.0",
     python_requires |-> ">=3.11",
     extras_require  |-> [dev |-> DevExtras],
     entry_points    |-> [console_scripts |-> ConsoleScripts]]

---------------------------------------------------------------------------
(* The file system the script runs in. *)

\* "here" is the directory of setup.py (os.path.dirname(__file__));
\* "elsewhere" is any other directory the process may have been started in.
Dirs == {"here", "elsewhere"}

NoReadme == [exists |-> FALSE, readable |-> FALSE, text |-> ""]

\* README.md as it may be in the directory of setup.py: absent, present but
\* failing to read, or a text.
ReadmesHere ==
    {NoReadme,
     [exists |-> TRUE, readable |-> FALSE, text |-> ""],
     [exists |-> TRUE, readable |-> TRUE, text |-> "# Brik Refunds Service\n"]}

\* README.md of another directory: absent, or some other project's.
ReadmesElsewhere ==
    {NoReadme,
     [exists |-> TRUE, readable |-> TRUE, text |-> "# Another project\n"]}

NoRequirements == [exists |-> FALSE, text |-> <<>>, fault |-> "none", at |-> 0]

\* requirements.txt: absent, or a text with the fault reading it meets.
\* fault "oserror" at 0 is an open() that fails (say, no permission); at k > 0
\* the fetch of line k fails with an OSError, or ("decode") with the
\* UnicodeDecodeError of bytes that are not UTF-8.
RequirementsFiles ==
    {NoRequirements}
    \cup {[exists |-> TRUE, text |-> t, fault |-> "none", at |-> 0] : t \in Texts}
    \cup {[exists |-> TRUE, text |-> t, fault |-> "oserror", at |-> 0] : t \in Texts}
    \cup UNION {{[exists |-> TRUE, text |-> t, fault |-> f, at |-> k] :
                    f \in {"oserror", "decode"}, k \in 1..LineCount(t)} :
                t \in Texts}

FileSystemInit ==
    /\ cwd \in Dirs
    /\ readme \in {r \in [Dirs -> ReadmesHere \cup ReadmesElsewhere] :
                      /\ r["here"] \in ReadmesHere
                      /\ r["elsewhere"] \in ReadmesElsewhere}
    /\ requirementsTxt \in RequirementsFiles

ProgramInit ==
    /\ README = ""
    /\ requirements = <<>>
    /\ rest = <<>>
    /\ lineNo = 0
    /\ retval = <<>>
    /\ REQUIREMENTS = <<>>
    /\ setupCalls = <<>>
    /\ exc = ""
    /\ results = <<>>

\* The script about to evaluate line 49.
Init == FileSystemInit /\ ProgramInit /\ pc = "readme"

---------------------------------------------------------------------------
(* read(filename) and line 49. *)

\* os.path.exists('README.md'): a relative path, resolved against the
\* working directory.
ReadmeExists == readme[cwd].exists

\* README = read('README.md') if os.path.exists('README.md') else ''
\* read() opens os.path.join(here, filename); nothing catches what it raises.
EvalReadme ==
    /\ pc = "readme"
    /\ IF ReadmeExists
       THEN IF ~readme["here"].exists
            THEN /\ pc' = "raised"
                 /\ exc' = "FileNotFoundError"
                 /\ UNCHANGED README
            ELSE IF ~readme["here"].readable
            THEN /\ pc' = "raised"
                 /\ exc' = "OSError"
                 /\ UNCHANGED README
            ELSE /\ README' = readme["here"].text
                 /\ pc' = "gr_open"
                 /\ UNCHANGED exc
       ELSE /\ README' = ""
            /\ pc' = "gr_open"
            /\ UNCHANGED exc
    /\ UNCHANGED <<fsVars, requirements, rest, lineNo, retval, REQUIREMENTS,
                   setupCalls, results>>

---------------------------------------------------------------------------
(* get_requirements() *)

\* Lines 20-23: requirements = [] and the open() of here/requirements.txt.
\* A failing open() raises FileNotFoundError or another OSError, and the
\* except clause of line 29 catches both.
GR_Open ==
    /\ pc = "gr_open"
    /\ requirements' = <<>>
    /\ lineNo' = 0
    /\ IF ~requirementsTxt.exists
          \/ (requirementsTxt.fault = "oserror" /\ requirementsTxt.at = 0)
       THEN /\ pc' = "gr_except"
            /\ rest' = <<>>
       ELSE /\ pc' = "gr_loop"
            /\ rest' = requirementsTxt.text
    /\ UNCHANGED <<fsVars, README, retval, REQUIREMENTS, setupCalls, exc, results>>

\* Lines 24-27, one iteration of `for line in f`, or its end.  An OSError of
\* the read is caught at line 29; a UnicodeDecodeError is a ValueError, which
\* line 29 does not name, and leaves get_requirements().
GR_NextLine ==
    /\ pc = "gr_loop"
    /\ IF rest = <<>>
       THEN /\ pc' = "gr_return"
            /\ UNCHANGED <<requirements, rest, lineNo, exc>>
       ELSE IF requirementsTxt.at = lineNo + 1 /\ requirementsTxt.fault = "oserror"
       THEN /\ pc' = "gr_except"
            /\ UNCHANGED <<requirements, rest, lineNo, exc>>
       ELSE IF requirementsTxt.at = lineNo + 1 /\ requirementsTxt.fault = "decode"
       THEN /\ pc' = "raised"
            /\ exc' = "UnicodeDecodeError"
            /\ UNCHANGED <<requirements, rest, lineNo>>
       ELSE LET line == Strip(NextLine(rest)) IN
            /\ requirements' = IF Accepted(line)
                               THEN Append(requirements, line)
                               ELSE requirements
            /\ rest' = AfterNextLine(rest)
            /\ lineNo' = lineNo + 1
            /\ pc' = "gr_loop"
            /\ UNCHANGED exc
    /\ UNCHANGED <<fsVars, README, retval, REQUIREMENTS, setupCalls, results>>

\* A return that takes an empty list for a missing one:
\* `return requirements or [...]`.
GR_Return_FallbackWhenEmpty ==
    /\ pc = "gr_return"
    /\ retval' = IF requirements = <<>> THEN FallbackList ELSE requirements
    /\ pc' = "returned"
    /\ UNCHANGED <<fsVars, README, requirements, rest, lineNo, REQUIREMENTS,
                   setupCalls, exc, results>>

\* A return that removes the file it has read.
GR_Return_RemovesFile ==
    /\ pc = "gr_return"
    /\ retval' = requirements
    /\ requirementsTxt' = NoRequirements
    /\ pc' = "returned"
    /\ UNCHANGED <<cwd, readme, README, requirements, rest, lineNo, REQUIREMENTS,
                   setupCalls, exc, results>>

\* Line 28: return requirements
GR_Return ==
    /\ pc = "gr_return"
    /\ retval' = requirements
    /\ pc' = "returned"
    /\ UNCHANGED <<fsVars, README, requirements, rest, lineNo, REQUIREMENTS,
                   setupCalls, exc, results>>

\* An except clause that keeps what was accepted before the failure:
\* `return requirements + [...]`.
GR_Except_KeepsAccepted ==
    /\ pc = "gr_except"
    /\ retval' = requirements \o FallbackList
    /\ pc' = "returned"
    /\ UNCHANGED <<fsVars, README, requirements, rest, lineNo, REQUIREMENTS,
                   setupCalls, exc, results>>

\* Lines 29-46: the except clause returns the literal list.
GR_Except ==
    /\ pc = "gr_except"
    /\ retval' = FallbackList
    /\ pc' = "returned"
    /\ UNCHANGED <<fsVars, README, requirements, rest, lineNo, REQUIREMENTS,
                   setupCalls, exc, results>>

---------------------------------------------------------------------------
(* Lines 52-85. *)

\* REQUIREMENTS = get_requirements()
AssignRequirements ==
    /\ pc = "returned"
    /\ REQUIREMENTS' = retval
    /\ pc' = "setup"
    /\ UNCHANGED <<fsVars, README, requirements, rest, lineNo, retval,
                   setupCalls, exc, results>>

\* setup(...)
Setup ==
    /\ pc = "setup"
    /\ setupCalls' = Append(setupCalls,
                            [name             |-> SetupLiterals.name,
                             version          |-> SetupLiterals.version,
                             long_description |-> README,
                             python_requires  |-> SetupLiterals.python_requires,
                             install_requires |-> REQUIREMENTS,
                             extras_require   |-> SetupLiterals.extras_require,
                             entry_points     |-> SetupLiterals.entry_points])
    /\ pc' = "done"
    /\ UNCHANGED <<fsVars, README, requirements, rest, lineNo, retval,
                   REQUIREMENTS, exc, results>>

Next ==
    \/ EvalReadme
    \/ GR_Open
    \/ GR_NextLine
    \/ GR_Return
    \/ GR_Except
    \/ AssignRequirements
    \/ Setup

\* One run of the script.
Spec == Init /\ [][Next]_vars

---------------------------------------------------------------------------
(* read() and get_requirements() under a caller that reads README.md as    *)
(* line 49 does and then calls get_requirements() more than once.          *)

InitCalls == FileSystemInit /\ ProgramInit /\ pc = "readme"

\* The caller keeps the list returned and calls again.
CallAgain ==
    /\ pc = "returned"
    /\ Len(results) < MaxCalls
    /\ results' = Append(results, retval)
    /\ pc' = IF Len(results) + 1 < MaxCalls THEN "gr_open" ELSE "done"
    /\ UNCHANGED <<fsVars, README, requirements, rest, lineNo, retval,
                   REQUIREMENTS, setupCalls, exc>>

NextCalls ==
    \/ EvalReadme
    \/ GR_Open
    \/ GR_NextLine
    \/ GR_Return
    \/ GR_Except
    \/ CallAgain

SpecCalls == InitCalls /\ [][NextCalls]_vars

---------------------------------------------------------------------------
(* What the properties below are stated with.  None of it is used by the   *)
(* actions above: a line and its stripped form are given here by position, *)
(* not by the script's iteration.                                          *)

\* get_requirements() has returned (and, in a run of the script, what
\* follows the return).
Returned == pc \in {"returned", "setup", "done"}

ReqAbsent == ~requirementsTxt.exists

\* requirements.txt exists and every read of it succeeds.
ReqReadable == requirementsTxt.exists /\ requirementsTxt.fault = "none"

\* requirements.txt exists and opening or reading it fails.
ReqUnreadable == requirementsTxt.exists /\ requirementsTxt.fault # "none"

Newlines(text) == {i \in 1..Len(text) : text[i] = NL}

\* The index of the k-th newline of text.
NthNewline(text, k) ==
    CHOOSE i \in Newlines(text) : Cardinality({j \in Newlines(text) : j <= i}) = k

\* The indices at which a line of text starts.
LineStarts(text) ==
    {i \in 1..Len(text) : i = 1 \/ text[i - 1] = NL}

\* The k-th line of text, without the newline that may end it.
LineOf(text, k) ==
    LET first == IF k = 1 THEN 1 ELSE NthNewline(text, k - 1) + 1
        last  == IF k <= Cardinality(Newlines(text))
                 THEN NthNewline(text, k) - 1
                 ELSE Len(text)
    IN  SubSeq(text, first, last)

\* The lines of text, in file order.
LinesOf(text) == [k \in 1..Cardinality(LineStarts(text)) |-> LineOf(text, k)]

\* A line without its surrounding whitespace: what lies between its first
\* and its last character that is not whitespace.
Trimmed(line) ==
    LET solid == {i \in 1..Len(line) : line[i] \notin Whitespace} IN
    IF solid = {} THEN <<>>
    ELSE SubSeq(line,
                CHOOSE i \in solid : \A j \in solid : i <= j,
                CHOOSE i \in solid : \A j \in solid : j <= i)

\* A stripped line that is a requirement: not empty, not a comment.
IsRequirement(s) == Len(s) > 0 /\ s[1] # "#"

TrimmedLinesOf(text) == [k \in DOMAIN LinesOf(text) |-> Trimmed(LinesOf(text)[k])]

\* The stripped requirement lines of text, in file order.
RequirementLinesOf(text) ==
    SelectSeq(TrimmedLinesOf(text), LAMBDA s : IsRequirement(s))

\* The fallback list as the documentation states it: package names and
\* minimum versions, in order.
DeclaredFloor ==
  << << <<"f","l","a","s","k">>,                                 <<"2",".","3">> >>,
     << <<"s","q","l","a","l","c","h","e","m","y">>,             <<"2",".","0">> >>,
     << <<"m","a","r","s","h","m","a","l","l","o","w">>,         <<"3",".","2","0">> >>,
     << <<"c","e","l","e","r","y">>,                             <<"5",".","3">> >>,
     << <<"p","y","j","w","t">>,                                 <<"2",".","8">> >>,
     << <<"p","y","m","o","n","g","o">>,                         <<"6",".","0">> >>,
     << <<"r","e","d","i","s">>,                                 <<"7",".","0">> >>,
     << <<"b","o","t","o","3">>,                                 <<"1",".","2","8">> >>,
     << <<"r","e","q","u","e","s","t","s">>,                     <<"2",".","3","1">> >>,
     << <<"p","y","t","h","o","n","-","d","o","t","e","n","v">>, <<"1",".","0">> >>,
     << <<"g","u","n","i","c","o","r","n">>,                     <<"2","1",".","2">> >>,
     << <<"p","y","d","a","n","t","i","c">>,                     <<"2",".","4">> >>,
     << <<"c","r","y","p","t","o","g","r","a","p","h","y">>,     <<"4","1",".","0">> >>,
     << <<"j","i","n","j","a","2">>,                             <<"3",".","1">> >> >>

\* name>=major.minor.0
FloorEntry(p) == p[1] \o <<">", "=">> \o p[2] \o <<".", "0">>

DeclaredFallback == [i \in DOMAIN DeclaredFloor |-> FloorEntry(DeclaredFloor[i])]

\* The development tools, by name.
DevTools ==
  << <<"p","y","t","e","s","t">>,
     <<"p","y","t","e","s","t","-","c","o","v">>,
     <<"p","y","t","e","s","t","-","m","o","c","k">>,
     <<"b","l","a","c","k">>,
     <<"f","l","a","k","e","8">>,
     <<"i","s","o","r","t">>,
     <<"m","y","p","y">> >>

\* The package a requirement names: what precedes its version specifier.
PackageOf(entry) ==
    LET ops == {i \in 1..Len(entry) : entry[i] \in {">", "=", "<", "!", "~"}} IN
    IF ops = {} THEN entry
    ELSE SubSeq(entry, 1, (CHOOSE i \in ops : \A j \in ops : i <= j) - 1)

Range(s) == {s[i] : i \in DOMAIN s}

IsPrefix(s, t) == Len(s) <= Len(t) /\ SubSeq(t, 1, Len(s)) = s

---------------------------------------------------------------------------
(* Properties. *)

\* C1: when requirements.txt exists and every read of it succeeds, what
\* get_requirements() returns is exactly the stripped lines of the file that
\* are not empty and do not start with '#', in file order: nothing reordered,
\* deduplicated, added or cut short, and a line with an inline comment whole.
C1_ReadableFileGivesItsRequirementLines ==
    (Returned /\ ReqReadable)
        => retval = RequirementLinesOf(requirementsTxt.text)

\* A readable file with a comment line and an indented requirement has been
\* read to the end of the run: the comment is gone, the requirement stripped.
C1_Witness ==
    /\ pc = "done"
    /\ ReqReadable
    /\ requirementsTxt.text = <<"#", NL, " ", "a">>
    /\ setupCalls[1].install_requires = << <<"a">> >>

\* C2: when requirements.txt is absent, get_requirements() returns the
\* fallback list, fourteen entries in the declared order with the declared
\* names and minimum versions, and setup() gets it as install_requires.
C2_AbsentFileGivesFallback ==
    ReqAbsent =>
        /\ Returned => /\ retval = DeclaredFallback
                       /\ Len(retval) = 14
        /\ pc = "done" => /\ Len(setupCalls) = 1
                          /\ setupCalls[1].install_requires = DeclaredFallback

C2_Witness ==
    /\ pc = "done"
    /\ ReqAbsent
    /\ Len(setupCalls) = 1
    /\ Len(setupCalls[1].install_requires) = 14

\* C3 (as claimed): whenever requirements.txt is absent or cannot be read,
\* content that is not UTF-8 included, get_requirements() raises nothing,
\* returns the fallback list, and the run goes on to setup().
C3_UnreadableFileNeverRaises ==
    (ReqAbsent \/ ReqUnreadable) =>
        /\ exc # "UnicodeDecodeError"
        /\ Returned => retval = DeclaredFallback
        /\ pc = "done" => Len(setupCalls) = 1

\* C4 (as claimed): whatever the working directory, long_description is the
\* text of the README.md beside setup.py when there is one and '' when there
\* is none, and line 49 raises nothing.
C4_ReadmeBesideSetupPyDecides ==
    LET expected == IF readme["here"].exists THEN readme["here"].text ELSE "" IN
    (readme["here"].exists => readme["here"].readable) =>
    /\ exc \notin {"FileNotFoundError", "OSError"}
    /\ pc \notin {"readme", "raised"} => README = expected
    /\ pc = "done" => setupCalls[1].long_description = expected

\* C5: every run that reaches setup() passes the same name, version,
\* python_requires and the same two console scripts, whatever the files.
C5_FixedMetadata ==
    /\ Len(setupCalls) <= 1
    /\ \A i \in DOMAIN setupCalls :
          /\ setupCalls[i].name = "brik-refunds-service"
          /\ setupCalls[i].version = "0.1.0"
          /\ setupCalls[i].python_requires = ">=3.11"
          /\ setupCalls[i].entry_points.console_scripts =
                << "refunds-api=backend.api.server:main",
                   "refunds-worker=backend.workers.processor:main" >>
          /\ DOMAIN setupCalls[i].entry_points = {"console_scripts"}

\* setup() was reached with a README and with requirements read from a file.
C5_Witness ==
    /\ pc = "done"
    /\ Len(setupCalls) = 1
    /\ setupCalls[1].long_description # ""
    /\ ReqReadable
    /\ setupCalls[1].install_requires # <<>>

\* C6: the 'dev' extra is the same seven development tools in every run
\* that reaches setup(), no other extra is declared, and when the fallback
\* list is in use none of them is in install_requires.
C6_DevToolsOnlyInDevExtra ==
    \A i \in DOMAIN setupCalls :
        LET dev == setupCalls[i].extras_require.dev
            inst == setupCalls[i].install_requires
        IN  /\ DOMAIN setupCalls[i].extras_require = {"dev"}
            /\ Len(dev) = 7
            /\ \A k \in 1..7 :
                  /\ PackageOf(dev[k]) = DevTools[k]
                  /\ Len(dev[k]) > Len(DevTools[k])
            /\ (ReqAbsent \/ requirementsTxt.fault = "oserror") =>
                  /\ Range(dev) \cap Range(inst) = {}
                  /\ \A e \in Range(inst) : PackageOf(e) \notin Range(DevTools)

\* setup() was reached with the fallback list in use.
C6_Witness ==
    /\ pc = "done"
    /\ requirementsTxt.fault = "oserror"
    /\ Len(setupCalls) = 1
    /\ Len(setupCalls[1].install_requires) = 14
    /\ Len(setupCalls[1].extras_require.dev) = 7

\* C7: a requirements.txt that is readable but empty, or all blank lines and
\* comments, gives the empty list, not the fallback list, and
\* install_requires is empty.
C7_NothingInFileGivesEmptyList ==
    (/\ ReqReadable
     /\ \A s \in Range(TrimmedLinesOf(requirementsTxt.text)) : ~IsRequirement(s))
        => /\ Returned => retval = <<>>
           /\ pc = "done" => setupCalls[1].install_requires = <<>>

\* A file of a blank line and a comment was read, and setup() reached.
C7_Witness ==
    /\ pc = "done"
    /\ ReqReadable
    /\ requirementsTxt.text = <<" ", NL, "#", "a">>
    /\ setupCalls[1].install_requires = <<>>

\* C8: the list returned is never a mixture.  It is the fallback list, or
\* it is made of stripped lines of a file every read of which succeeded; and
\* when a read fails with an OSError, after however many accepted lines, it
\* is the fallback list and holds none of them.
C8_NeverAMixture ==
    Returned =>
        /\ \/ retval = DeclaredFallback
           \/ /\ ReqReadable
              /\ Range(retval) \subseteq Range(TrimmedLinesOf(requirementsTxt.text))
        /\ requirementsTxt.fault = "oserror" =>
              /\ retval = DeclaredFallback
              /\ Range(retval) \cap Range(requirements) = {}

\* The second read failed after the first line had been accepted.
C8_Witness ==
    /\ Returned
    /\ requirementsTxt.fault = "oserror"
    /\ requirementsTxt.at = 2
    /\ lineNo = 1
    /\ Len(requirements) = 1
    /\ retval = DeclaredFallback

\* The entries accumulated, in get_requirements() from the open on.
C9_EntriesAreStrippedRequirements ==
    (pc \in {"gr_loop", "gr_return"} \/ (Returned /\ ReqReadable)) =>
        /\ \A e \in Range(requirements) :
              /\ e # <<>>
              /\ e[1] \notin Whitespace
              /\ e[Len(e)] \notin Whitespace
              /\ e[1] # "#"
        /\ lineNo <= Cardinality(LineStarts(requirementsTxt.text))
        /\ Len(requirements) =
              Cardinality({k \in 1..lineNo :
                  IsRequirement(Trimmed(LineOf(requirementsTxt.text, k)))})
        /\ Returned => retval = requirements

\* One step of the loop leaves the list alone or appends one entry.
C9_OnlyAppends ==
    (pc = "gr_loop" /\ pc' \in {"gr_loop", "gr_return", "gr_except", "raised"}) =>
        /\ IsPrefix(requirements, requirements')
        /\ Len(requirements') <= Len(requirements) + 1

\* C9: at every point while get_requirements() reads the file, and in its
\* result when the file was read, every entry accumulated is non-empty, has
\* no whitespace at either end and does not start with '#'; there are as
\* many entries as lines consumed so far that pass the filter; and the list
\* only grows, by one entry appended at its end.
C9_LoopInvariant ==
    /\ []C9_EntriesAreStrippedRequirements
    /\ [][C9_OnlyAppends]_vars

\* In the middle of the file, one line consumed and accepted.
C9_Witness ==
    /\ pc = "gr_loop"
    /\ lineNo = 1
    /\ Len(requirements) = 1
    /\ rest # <<>>

\* What get_requirements() returns, from requirements.txt alone.
ResultOf(file) ==
    IF ~file.exists \/ file.fault = "oserror"
    THEN DeclaredFallback
    ELSE RequirementLinesOf(file.text)

\* C10: get_requirements() only reads.  No step of it changes a file, so
\* the lists two consecutive calls return are equal, and each is a function
\* of requirements.txt alone, whatever README.md is.
C10_ReadOnlyAndRepeatable ==
    /\ [][fsVars' = fsVars]_vars
    /\ [](\A i, j \in DOMAIN results : results[i] = results[j])
    /\ [](\A i \in DOMAIN results : results[i] = ResultOf(requirementsTxt))

\* Two calls have returned a list read from the file, with a README.md
\* beside setup.py.
C10_Witness ==
    /\ Len(results) = 2
    /\ ReqReadable
    /\ results[2] # <<>>
    /\ readme["here"].exists

===========================================================================
